---- MODULE Spec2Model ----
(***************************************************************************)
(* Model of generate_mail.py: the address validator, the recipient         *)
(* builder, the body encoder, the filename deriver and the message         *)
(* assembler generate_mail, which populates an independentsoft.msg Message *)
(* and saves it.                                                           *)
(*                                                                         *)
(* A Python str is a sequence of code points.  A Python value that may be  *)
(* a str, a list of str or something else is a record [type, items]: a     *)
(* str has its text as the only item, a list has its elements as items.    *)
(***************************************************************************)
EXTENDS Integers, Sequences, FiniteSets, TLC

VARIABLES
    pc,            \* position in the running function
    to,            \* generate_mail argument / generate_msg_filename recipients
    cc,            \* generate_mail argument
    subject,       \* generate_mail argument
    body,          \* generate_mail argument
    recipient_to,  \* local list of Recipient objects (TO)
    recipient_cc,  \* local list of Recipient objects (CC)
    display_to,    \* local str
    display_cc,    \* local str
    html_body,     \* local str
    rtf_body,      \* local bytes
    message,       \* the Message object
    timestamp,     \* local str of generate_msg_filename
    filename,      \* local str: the name handed to save
    err,           \* the exception that propagated, "" when none
    saves,         \* calls of message.save made by the running invocation
    clock,         \* the wall clock, seconds since the start of the run
    files,         \* the file system: filename -> the message saved there
    calls          \* invocations of generate_mail started so far

vars == <<pc, to, cc, subject, body, recipient_to, recipient_cc, display_to,
          display_cc, html_body, rtf_body, message, timestamp, filename, err,
          saves, clock, files, calls>>

(***************************************************************************)
(* Bounds of the model.                                                    *)
(***************************************************************************)
MaxList == 2        \* longest to / cc list
MaxAddrLen == 7     \* longest string handed to the validator on its own
MaxBodyLen == 3     \* longest text handed to the encoder on its own
MaxSubjectLen == 32 \* longest subject handed to the filename deriver on its own
MaxTicks == 1       \* seconds the clock may advance
MaxCalls == 2       \* invocations in a run of repeated invocations

(***************************************************************************)
(* Python values.                                                          *)
(***************************************************************************)
Str(s) == [type |-> "str", items |-> <<s>>]
List(l) == [type |-> "list", items |-> l]
PyInt == [type |-> "int", items |-> <<>>]
PyNone == [type |-> "NoneType", items |-> <<>>]
Text(v) == v.items[1]

Min(a, b) == IF a < b THEN a ELSE b

RECURSIVE Concat(_)
Concat(ss) == IF ss = <<>> THEN <<>> ELSE Head(ss) \o Concat(Tail(ss))

\* str.replace(old, new) for a one-character old
Replace(s, old, new) ==
    Concat([i \in 1..Len(s) |-> IF s[i] = old THEN new ELSE <<s[i]>>])

\* str.split(sep) for a one-character sep
RECURSIVE Split(_, _)
Split(s, sep) ==
    IF \A i \in 1..Len(s) : s[i] # sep
    THEN <<s>>
    ELSE LET i == CHOOSE k \in 1..Len(s) :
                      s[k] = sep /\ \A j \in 1..(k - 1) : s[j] # sep
         IN  <<SubSeq(s, 1, i - 1)>> \o Split(SubSeq(s, i + 1, Len(s)), sep)

\* sep.join(parts)
RECURSIVE Join(_, _)
Join(sep, parts) ==
    IF parts = <<>> THEN <<>>
    ELSE IF Len(parts) = 1 THEN parts[1]
    ELSE parts[1] \o sep \o Join(sep, Tail(parts))

\* the decimal digits of a natural number
RECURSIVE Decimal(_)
Decimal(n) == IF n < 10 THEN <<48 + n>> ELSE Decimal(n \div 10) \o <<48 + (n % 10)>>

\* a zero-padded field of strftime
Pad(n, width) ==
    LET d == Decimal(n)
    IN  [i \in 1..(IF width > Len(d) THEN width - Len(d) ELSE 0) |-> 48] \o d

(***************************************************************************)
(* encode_html_characters                                                  *)
(***************************************************************************)
\* variant: everything outside the printable range 32..126 gets a reference
XmlCharRefReplaceLoose(s) ==
    Concat([i \in 1..Len(s) |->
        IF s[i] >= 32 /\ s[i] <= 126 THEN <<s[i]>>
        ELSE <<38, 35>> \o Decimal(s[i]) \o <<59>>])

\* str.encode('ascii', 'xmlcharrefreplace').decode()
XmlCharRefReplace(s) ==
    Concat([i \in 1..Len(s) |->
        IF s[i] < 128 THEN <<s[i]>>
        ELSE <<38, 35>> \o Decimal(s[i]) \o <<59>>])

BR == <<60, 98, 114, 62>>  \* "<br>"

encode_html_characters(unencoded_str) ==
    Replace(XmlCharRefReplace(unencoded_str), 10, BR)

\* str.encode("utf-8")
Utf8(s) ==
    Concat([i \in 1..Len(s) |->
        IF s[i] < 128 THEN <<s[i]>>
        ELSE IF s[i] < 2048
             THEN <<192 + (s[i] \div 64), 128 + (s[i] % 64)>>
        ELSE IF s[i] < 65536
             THEN <<224 + (s[i] \div 4096), 128 + ((s[i] \div 64) % 64),
                    128 + (s[i] % 64)>>
        ELSE <<240 + (s[i] \div 262144), 128 + ((s[i] \div 4096) % 64),
               128 + ((s[i] \div 64) % 64), 128 + (s[i] % 64)>>])

\* "{\rtf1\ansi\ansicpg1252\fromhtml1 \htmlrtf0 "
RtfPreamble ==
    <<123, 92, 114, 116, 102, 49, 92, 97, 110, 115, 105, 92, 97, 110, 115, 105,
      99, 112, 103, 49, 50, 53, 50, 92, 102, 114, 111, 109, 104, 116, 109, 108,
      49, 32, 92, 104, 116, 109, 108, 114, 116, 102, 48, 32>>

RtfBody(html) == Utf8(RtfPreamble \o html \o <<125>>)

(***************************************************************************)
(* validate_mail_address                                                   *)
(***************************************************************************)
IsAlpha(c) == (c >= 65 /\ c <= 90) \/ (c >= 97 /\ c <= 122)
IsDigit(c) == c >= 48 /\ c <= 57
\* [a-zA-Z0-9._%+-]
InLocalClass(c) == IsAlpha(c) \/ IsDigit(c) \/ c \in {46, 95, 37, 43, 45}
\* [a-zA-Z0-9.-]
InDomainClass(c) == IsAlpha(c) \/ IsDigit(c) \/ c \in {46, 45}

\* $ without re.MULTILINE: at the end, or just before a final line feed
Dollar(s, e) == e = Len(s) \/ (e = Len(s) - 1 /\ s[Len(s)] = 10)

\* re.match(r'^[a-zA-Z0-9._%+-]+@[a-zA-Z0-9.-]+\.[a-zA-Z]{2,}$', s):
\* the local part is s[1..i-1], the domain s[i+1..j-1], the letters s[j+1..e]
ReMatch(s) ==
    \E i \in 2..Len(s) : \E j \in (i + 2)..Len(s) : \E e \in (j + 2)..Len(s) :
        /\ \A k \in 1..(i - 1) : InLocalClass(s[k])
        /\ s[i] = 64
        /\ \A k \in (i + 1)..(j - 1) : InDomainClass(s[k])
        /\ s[j] = 46
        /\ \A k \in (j + 1)..e : IsAlpha(s[k])
        /\ Dollar(s, e)

\* TRUE when the assert passes
validate_mail_address(am_i_a_mail_address) == ReMatch(am_i_a_mail_address)

(***************************************************************************)
(* prepare_recipients: called once validate_mail_address has passed        *)
(***************************************************************************)
prepare_recipients(recipient_mail, recipient_type) ==
    [address_type   |-> "SMTP",
     display_type   |-> "MAIL_USER",
     object_type    |-> "MAIL_USER",
     display_name   |-> recipient_mail,
     email_address  |-> recipient_mail,
     recipient_type |-> recipient_type]

(***************************************************************************)
(* generate_msg_filename                                                   *)
(***************************************************************************)
\* datetime.now(): the run starts on 2024-01-02 at 03:04:05
Now(elapsed) ==
    LET seconds == 11045 + elapsed
    IN  [year |-> 2024, month |-> 1, day |-> 2,
         hour |-> (seconds \div 3600) % 24,
         minute |-> (seconds \div 60) % 60,
         second |-> seconds % 60]

\* strftime("%Y%m%d_%H%M%S")
Strftime(dt) ==
    Pad(dt.year, 4) \o Pad(dt.month, 2) \o Pad(dt.day, 2) \o <<95>>
        \o Pad(dt.hour, 2) \o Pad(dt.minute, 2) \o Pad(dt.second, 2)

SubjectLimit == 30

Others == <<43, 111, 116, 104, 101, 114, 115>>  \* "+others"
MsgExt == <<46, 109, 115, 103>>                  \* ".msg"

\* recipients_str; reading recipients[0] of an empty list raises IndexError
RaisesIndexError(recipients) == recipients.type = "list" /\ recipients.items = <<>>

RecipientsStr(recipients) ==
    IF recipients.type = "list"
    THEN LET first_recipient == Split(recipients.items[1], 64)[1]
         IN  IF Len(recipients.items) > 1
             THEN first_recipient \o Others
             ELSE first_recipient
    ELSE IF \E i \in 1..Len(Text(recipients)) : Text(recipients)[i] = 64
         THEN Split(Text(recipients), 64)[1]
         ELSE Text(recipients)

\* variant: the slice keeps one character more
SubjectCleanOffByOne(subj) ==
    LET replaced == Replace(subj, 32, <<95>>)
    IN  SubSeq(replaced, 1, Min(Len(replaced), SubjectLimit + 1))

SubjectClean(subj) ==
    LET replaced == Replace(subj, 32, <<95>>)
    IN  SubSeq(replaced, 1, Min(Len(replaced), SubjectLimit))

FormatFilename(stamp, recipients_str, subject_clean) ==
    stamp \o <<95>> \o recipients_str \o <<95>> \o subject_clean \o MsgExt

generate_msg_filename(stamp, recipients, subj) ==
    FormatFilename(stamp, RecipientsStr(recipients), SubjectClean(subj))

(***************************************************************************)
(* Inputs                                                                  *)
(***************************************************************************)
Alice == <<97, 64, 98, 46, 99, 111>>    \* "a@b.co"
Carol == <<99, 64, 100, 46, 99, 111>>   \* "c@d.co"
Bob == <<98, 111, 98>>                  \* "bob": no @
AddressPool == {Alice, Carol, Bob}

Lists(pool, n) == UNION {[1..k -> pool] : k \in 0..n}

ToValues ==
    {Str(a) : a \in AddressPool}
        \cup {List(l) : l \in Lists(AddressPool, MaxList)}
        \cup {PyInt}
CcValues == ToValues \cup {Str(<<>>)}

HelloWorld == <<72, 101, 108, 108, 111, 32, 87, 111, 114, 108, 100>>
LongSubject ==  \* "Quarterly report for the northern region"
    <<81, 117, 97, 114, 116, 101, 114, 108, 121, 32, 114, 101, 112, 111, 114,
      116, 32, 102, 111, 114, 32, 116, 104, 101, 32, 110, 111, 114, 116, 104,
      101, 114, 110, 32, 114, 101, 103, 105, 111, 110>>
Subjects == {HelloWorld, LongSubject}

TwoLines == <<76, 105, 110, 101, 49, 10, 76, 105, 110, 101, 50>>  \* "Line1\nLine2"
Accented == <<104, 233, 108, 108, 111>>                            \* "héllo"
Bodies == {TwoLines, Accented}

(***************************************************************************)
(* generate_mail                                                           *)
(***************************************************************************)
\* Message(): nothing set, the three collections empty
NewMessage ==
    [subject |-> PyNone, body_html_text |-> PyNone, body_rtf |-> PyNone,
     display_to |-> PyNone, display_cc |-> PyNone, recipients |-> <<>>,
     message_flags |-> <<>>, store_support_masks |-> <<>>]

Locals == <<recipient_to, recipient_cc, display_to, display_cc, html_body,
            rtf_body, timestamp, filename>>
Args == <<to, cc, subject, body>>
World == <<clock, files>>

Blank ==
    /\ to = PyNone /\ cc = PyNone /\ subject = <<>> /\ body = <<>>
    /\ recipient_to = <<>> /\ recipient_cc = <<>>
    /\ display_to = <<>> /\ display_cc = <<>>
    /\ html_body = <<>> /\ rtf_body = <<>>
    /\ message = NewMessage
    /\ timestamp = <<>> /\ filename = <<>>
    /\ err = "" /\ saves = 0
    /\ clock = 0 /\ files = <<>> /\ calls = 0

Init == pc = "idle" /\ Blank

\* lines 120-125: entry, message = Message(), recipient_to = [], display_to = ""
Enter(t, c, s, b) ==
    /\ pc = "idle"
    /\ to' = t /\ cc' = c /\ subject' = s /\ body' = b
    /\ message' = NewMessage
    /\ recipient_to' = <<>> /\ recipient_cc' = <<>>
    /\ display_to' = <<>> /\ display_cc' = <<>>
    /\ html_body' = <<>> /\ rtf_body' = <<>>
    /\ timestamp' = <<>> /\ filename' = <<>>
    /\ err' = "" /\ saves' = 0
    /\ calls' = calls + 1
    /\ pc' = "to"
    /\ UNCHANGED World

Call ==
    /\ calls = 0
    /\ \E t \in ToValues, c \in CcValues, s \in Subjects, b \in Bodies :
           Enter(t, c, s, b)

Raise(e) ==
    /\ pc' = "raised"
    /\ err' = e

\* lines 126-128
ToStr ==
    /\ pc = "to" /\ to.type = "str"
    /\ IF validate_mail_address(Text(to))
       THEN /\ recipient_to' = Append(recipient_to, prepare_recipients(Text(to), "TO"))
            /\ display_to' = Text(to)
            /\ pc' = "cc"
            /\ UNCHANGED err
       ELSE /\ Raise("AssertionError")
            /\ UNCHANGED <<recipient_to, display_to>>
    /\ UNCHANGED <<Args, recipient_cc, display_cc, html_body, rtf_body, message,
                   timestamp, filename, saves, calls, World>>

\* variant: each TO recipient is appended to the message as soon as it is built
ToListItemDirect ==
    /\ pc = "to" /\ to.type = "list"
    /\ Len(recipient_to) < Len(to.items)
    /\ LET item == to.items[Len(recipient_to) + 1]
       IN  IF validate_mail_address(item)
           THEN /\ recipient_to' = Append(recipient_to, prepare_recipients(item, "TO"))
                /\ message' = [message EXCEPT !.recipients =
                                  Append(message.recipients, prepare_recipients(item, "TO"))]
                /\ UNCHANGED <<pc, err>>
           ELSE /\ Raise("AssertionError")
                /\ UNCHANGED <<recipient_to, message>>
    /\ UNCHANGED <<Args, display_to, recipient_cc, display_cc, html_body, rtf_body,
                   timestamp, filename, saves, calls, World>>

\* lines 129-131: one iteration of the loop
ToListItem ==
    /\ pc = "to" /\ to.type = "list"
    /\ Len(recipient_to) < Len(to.items)
    /\ LET item == to.items[Len(recipient_to) + 1]
       IN  IF validate_mail_address(item)
           THEN /\ recipient_to' = Append(recipient_to, prepare_recipients(item, "TO"))
                /\ UNCHANGED <<pc, err>>
           ELSE /\ Raise("AssertionError")
                /\ UNCHANGED recipient_to
    /\ UNCHANGED <<Args, display_to, recipient_cc, display_cc, html_body, rtf_body,
                   message, timestamp, filename, saves, calls, World>>

\* line 132
ToListJoin ==
    /\ pc = "to" /\ to.type = "list"
    /\ Len(recipient_to) = Len(to.items)
    /\ display_to' = Join(<<59, 32>>, to.items)
    /\ pc' = "cc"
    /\ UNCHANGED <<Args, recipient_to, recipient_cc, display_cc, html_body, rtf_body,
                   message, timestamp, filename, err, saves, calls, World>>

\* lines 133-134
ToTypeError ==
    /\ pc = "to" /\ to.type \notin {"str", "list"}
    /\ Raise("TypeError")
    /\ UNCHANGED <<Args, Locals, message, saves, calls, World>>

\* variant: no cc != "" test, the empty string is validated like any other
CcSkipValidates ==
    /\ pc = "cc" /\ cc = Str(<<>>)
    /\ IF validate_mail_address(Text(cc))
       THEN /\ recipient_cc' = Append(recipient_cc, prepare_recipients(Text(cc), "CC"))
            /\ pc' = "encode"
            /\ UNCHANGED err
       ELSE /\ Raise("AssertionError")
            /\ UNCHANGED recipient_cc
    /\ UNCHANGED <<Args, recipient_to, display_to, display_cc, html_body, rtf_body,
                   message, timestamp, filename, saves, calls, World>>

\* lines 137-139: cc == "" skips the copy step
CcSkip ==
    /\ pc = "cc" /\ cc = Str(<<>>)
    /\ pc' = "encode"
    /\ UNCHANGED <<Args, Locals, message, err, saves, calls, World>>

\* lines 140-142
CcStr ==
    /\ pc = "cc" /\ cc # Str(<<>>) /\ cc.type = "str"
    /\ IF validate_mail_address(Text(cc))
       THEN /\ recipient_cc' = Append(recipient_cc, prepare_recipients(Text(cc), "CC"))
            /\ display_cc' = Text(cc)
            /\ pc' = "encode"
            /\ UNCHANGED err
       ELSE /\ Raise("AssertionError")
            /\ UNCHANGED <<recipient_cc, display_cc>>
    /\ UNCHANGED <<Args, recipient_to, display_to, html_body, rtf_body, message,
                   timestamp, filename, saves, calls, World>>

\* lines 143-145: one iteration of the loop
CcListItem ==
    /\ pc = "cc" /\ cc.type = "list"
    /\ Len(recipient_cc) < Len(cc.items)
    /\ LET item == cc.items[Len(recipient_cc) + 1]
       IN  IF validate_mail_address(item)
           THEN /\ recipient_cc' = Append(recipient_cc, prepare_recipients(item, "CC"))
                /\ UNCHANGED <<pc, err>>
           ELSE /\ Raise("AssertionError")
                /\ UNCHANGED recipient_cc
    /\ UNCHANGED <<Args, recipient_to, display_to, display_cc, html_body, rtf_body,
                   message, timestamp, filename, saves, calls, World>>

\* line 146
CcListJoin ==
    /\ pc = "cc" /\ cc.type = "list"
    /\ Len(recipient_cc) = Len(cc.items)
    /\ display_cc' = Join(<<59, 32>>, cc.items)
    /\ pc' = "encode"
    /\ UNCHANGED <<Args, recipient_to, display_to, recipient_cc, html_body, rtf_body,
                   message, timestamp, filename, err, saves, calls, World>>

\* variant: no else branch, a cc of another type is taken as no copy
CcTypeErrorIgnored ==
    /\ pc = "cc" /\ cc.type \notin {"str", "list"}
    /\ pc' = "encode"
    /\ UNCHANGED <<Args, Locals, message, err, saves, calls, World>>

\* lines 147-148
CcTypeError ==
    /\ pc = "cc" /\ cc.type \notin {"str", "list"}
    /\ Raise("TypeError")
    /\ UNCHANGED <<Args, Locals, message, saves, calls, World>>

\* lines 150-154
EncodeBody ==
    /\ pc = "encode"
    /\ html_body' = encode_html_characters(body)
    /\ rtf_body' = RtfBody(encode_html_characters(body))
    /\ pc' = "fields"
    /\ UNCHANGED <<Args, recipient_to, display_to, recipient_cc, display_cc, message,
                   timestamp, filename, err, saves, calls, World>>

\* variant: the filename is derived before the message is populated
SetFieldsAfterNaming ==
    /\ pc = "fields"
    /\ IF RaisesIndexError(to)
       THEN /\ Raise("IndexError")
            /\ UNCHANGED message
       ELSE /\ message' = [message EXCEPT !.subject = Str(subject),
                                          !.body_html_text = Str(html_body),
                                          !.body_rtf = Str(rtf_body),
                                          !.display_to = Str(display_to),
                                          !.display_cc = Str(display_cc)]
            /\ pc' = "recipients"
            /\ UNCHANGED err
    /\ UNCHANGED <<Args, Locals, saves, calls, World>>

\* lines 157-161
SetFields ==
    /\ pc = "fields"
    /\ message' = [message EXCEPT !.subject = Str(subject),
                                  !.body_html_text = Str(html_body),
                                  !.body_rtf = Str(rtf_body),
                                  !.display_to = Str(display_to),
                                  !.display_cc = Str(display_cc)]
    /\ pc' = "recipients"
    /\ UNCHANGED <<Args, Locals, err, saves, calls, World>>

\* variant: the two loops swapped
RecipientOrderCcFirst(tos, ccs) == ccs \o tos

\* the order in which lines 162-165 append
RecipientOrder(tos, ccs) == tos \o ccs

\* lines 162-165
AppendRecipients ==
    /\ pc = "recipients"
    /\ message' = [message EXCEPT
           !.recipients = message.recipients \o RecipientOrder(recipient_to, recipient_cc)]
    /\ pc' = "flags"
    /\ UNCHANGED <<Args, Locals, err, saves, calls, World>>

\* variant: the store support mask is left out
SetFlagsNoMask ==
    /\ pc = "flags"
    /\ message' = [message EXCEPT
           !.message_flags = Append(message.message_flags, "UNSENT")]
    /\ pc' = "filename"
    /\ UNCHANGED <<Args, Locals, err, saves, calls, World>>

\* lines 166-167
SetFlags ==
    /\ pc = "flags"
    /\ message' = [message EXCEPT
           !.message_flags = Append(message.message_flags, "UNSENT"),
           !.store_support_masks = Append(message.store_support_masks, "CREATE")]
    /\ pc' = "filename"
    /\ UNCHANGED <<Args, Locals, err, saves, calls, World>>

\* variant: the body is handed over in place of the subject
FilenameForBody(stamp, t, c, s, b) == generate_msg_filename(stamp, t, b)

\* the arguments line 170 hands to generate_msg_filename
FilenameFor(stamp, t, c, s, b) == generate_msg_filename(stamp, t, s)

\* line 170, generate_msg_filename(to, subject)
DeriveFilename ==
    /\ pc = "filename"
    /\ timestamp' = Strftime(Now(clock))
    /\ IF RaisesIndexError(to)
       THEN /\ Raise("IndexError")
            /\ UNCHANGED filename
       ELSE /\ filename' = FilenameFor(Strftime(Now(clock)), to, cc, subject, body)
            /\ pc' = "save"
            /\ UNCHANGED err
    /\ UNCHANGED <<Args, recipient_to, display_to, recipient_cc, display_cc, html_body,
                   rtf_body, message, saves, calls, World>>

\* what save leaves at the path: the message, with the recipients argument and
\* the timestamp its name was derived from
Written == [message |-> message, to |-> to, timestamp |-> timestamp]

\* line 172: save writes (or overwrites) the file
Save ==
    /\ pc = "save"
    /\ saves' = saves + 1
    /\ files' = [f \in DOMAIN files \cup {filename} |->
                    IF f = filename THEN Written ELSE files[f]]
    /\ pc' = "done"
    /\ UNCHANGED <<Args, Locals, message, err, calls, clock>>

\* line 172: save raises on an I/O failure
SaveFails ==
    /\ pc = "save"
    /\ saves' = saves + 1
    /\ Raise("OSError")
    /\ UNCHANGED <<Args, Locals, message, calls, World>>

\* the clock advances at any moment
Tick ==
    /\ clock < MaxTicks
    /\ clock' = clock + 1
    /\ UNCHANGED <<pc, Args, Locals, message, err, saves, files, calls>>

Steps ==
    \/ ToStr \/ ToListItem \/ ToListJoin \/ ToTypeError
    \/ CcSkip \/ CcStr \/ CcListItem \/ CcListJoin \/ CcTypeError
    \/ EncodeBody \/ SetFields \/ AppendRecipients \/ SetFlags
    \/ DeriveFilename \/ Save \/ SaveFails

Next == Call \/ Steps \/ Tick

Spec == Init /\ [][Next]_vars

(***************************************************************************)
(* Repeated invocations against the same file system and clock.            *)
(***************************************************************************)
RepeatTo == {Str(Alice), List(<<Alice, Carol>>), PyInt}
RepeatCc == {Str(<<>>), Str(Carol), List(<<Carol, Bob>>), List(<<Carol>>), PyInt}

Recall ==
    /\ calls < MaxCalls
    /\ \E t \in RepeatTo, c \in RepeatCc, s \in Subjects, b \in Bodies :
           Enter(t, c, s, b)

\* generate_mail returns or its exception has propagated: the locals are gone
Return ==
    /\ pc \in {"done", "raised"}
    /\ pc' = "idle"
    /\ to' = PyNone /\ cc' = PyNone /\ subject' = <<>> /\ body' = <<>>
    /\ recipient_to' = <<>> /\ recipient_cc' = <<>>
    /\ display_to' = <<>> /\ display_cc' = <<>>
    /\ html_body' = <<>> /\ rtf_body' = <<>>
    /\ message' = NewMessage
    /\ timestamp' = <<>> /\ filename' = <<>>
    /\ err' = "" /\ saves' = 0
    /\ UNCHANGED <<calls, World>>

NextRepeat == Recall \/ Steps \/ Tick \/ Return

SpecRepeat == Init /\ [][NextRepeat]_vars

(***************************************************************************)
(* The validator, the encoder and the filename deriver on their own.       *)
(***************************************************************************)
Strings(alphabet, n) == UNION {[1..k -> alphabet] : k \in 0..n}

\* a 1 @ . line-feed _
AddrAlphabet == {97, 49, 64, 46, 10, 95}

InitValidate ==
    /\ pc = "validate"
    /\ to \in {Str(s) : s \in Strings(AddrAlphabet, MaxAddrLen)}
    /\ cc = PyNone /\ subject = <<>> /\ body = <<>>
    /\ recipient_to = <<>> /\ recipient_cc = <<>>
    /\ display_to = <<>> /\ display_cc = <<>>
    /\ html_body = <<>> /\ rtf_body = <<>>
    /\ message = NewMessage
    /\ timestamp = <<>> /\ filename = <<>>
    /\ err = "" /\ saves = 0
    /\ clock = 0 /\ files = <<>> /\ calls = 0

\* lines 42-44
Validate ==
    /\ pc = "validate"
    /\ IF validate_mail_address(Text(to))
       THEN pc' = "accepted" /\ UNCHANGED err
       ELSE Raise("AssertionError")
    /\ UNCHANGED <<Args, Locals, message, saves, calls, World>>

NextValidate == Validate

SpecValidate == InitValidate /\ [][NextValidate]_vars

\* tab line-feed & A e-acute euro
BodyAlphabet == {9, 10, 38, 65, 233, 8364}

InitEncode ==
    /\ pc = "encode"
    /\ body \in Strings(BodyAlphabet, MaxBodyLen)
    /\ to = PyNone /\ cc = PyNone /\ subject = <<>>
    /\ recipient_to = <<>> /\ recipient_cc = <<>>
    /\ display_to = <<>> /\ display_cc = <<>>
    /\ html_body = <<>> /\ rtf_body = <<>>
    /\ message = NewMessage
    /\ timestamp = <<>> /\ filename = <<>>
    /\ err = "" /\ saves = 0
    /\ clock = 0 /\ files = <<>> /\ calls = 0

NextEncode == EncodeBody

SpecEncode == InitEncode /\ [][NextEncode]_vars

\* "a@b.co", "bob", "a@b@c", "", "@x"
NamePool == {Alice, Bob, <<97, 64, 98, 64, 99>>, <<>>, <<64, 120>>}
FilenameRecipients ==
    {Str(a) : a \in NamePool} \cup {List(l) : l \in Lists(NamePool, MaxList)}

\* n characters, a space at every k-th place
SubjectOf(n, k) == [i \in 1..n |-> IF i % k = 0 THEN 32 ELSE 97]
FilenameSubjects == {SubjectOf(n, k) : n \in 0..MaxSubjectLen, k \in 1..3}

\* 03:04:05, 03:05:00, 12:00:00
ClockSamples == {0, 55, 32155}

InitFilename ==
    /\ pc = "filename"
    /\ to \in FilenameRecipients
    /\ subject \in FilenameSubjects
    /\ clock \in ClockSamples
    /\ cc = PyNone /\ body = <<>>
    /\ recipient_to = <<>> /\ recipient_cc = <<>>
    /\ display_to = <<>> /\ display_cc = <<>>
    /\ html_body = <<>> /\ rtf_body = <<>>
    /\ message = NewMessage
    /\ timestamp = <<>> /\ filename = <<>>
    /\ err = "" /\ saves = 0
    /\ files = <<>> /\ calls = 0

NextFilename == DeriveFilename

SpecFilename == InitFilename /\ [][NextFilename]_vars

(***************************************************************************)
(* Properties                                                              *)
(***************************************************************************)
\* the addresses an argument stands for, in order
Addresses(v) == IF v.type = "str" THEN <<Text(v)>> ELSE v.items

\* those of cc, whose empty string stands for none
CcAddresses(v) == IF v = Str(<<>>) THEN <<>> ELSE Addresses(v)

AllValid(v) ==
    /\ v.type \in {"str", "list"}
    /\ \A i \in 1..Len(Addresses(v)) : validate_mail_address(Addresses(v)[i])

\* every field set, every recipient and both flags appended
Populated ==
    /\ message.subject = Str(subject)
    /\ message.body_html_text = Str(html_body)
    /\ message.body_rtf = Str(rtf_body)
    /\ message.display_to = Str(display_to)
    /\ message.display_cc = Str(display_cc)
    /\ message.recipients = recipient_to \o recipient_cc
    /\ message.message_flags = <<"UNSENT">>
    /\ message.store_support_masks = <<"CREATE">>

ReachedSave == pc \in {"save", "done"} \/ saves > 0

\* C1: when a validation error or a type error propagates, no field of the
\* message has been set, nothing has been appended to it, save has not been
\* called and no file has been written.
C1_FailFast ==
    (pc = "raised" /\ err \in {"AssertionError", "TypeError"}) =>
        /\ message = NewMessage
        /\ saves = 0
        /\ DOMAIN files = {}

\* a cc address is rejected after both TO recipients were built
C1_Witness ==
    /\ pc = "raised" /\ err = "AssertionError"
    /\ Len(recipient_to) = 2 /\ Len(recipient_cc) = 1

\* C2: save is called at most once, only as the last step and only on a fully
\* populated message; an invocation ends either with that one call of save or
\* with an error and no call of save.
C2_NoPartialSuccess ==
    /\ saves <= 1
    /\ saves = 1 => Populated /\ (pc = "done" \/ (pc = "raised" /\ err = "OSError"))
    /\ pc = "save" => Populated /\ saves = 0
    /\ pc = "done" => saves = 1 /\ err = ""
    /\ pc = "raised" => (saves = 1 /\ Populated) \/ saves = 0

C2_Witness ==
    /\ pc = "done" /\ saves = 1 /\ Populated
    /\ Len(message.recipients) = 4
    /\ filename \in DOMAIN files

\* C3: once save is reached, the recipients of the message are the Primary
\* recipients, one per address of to in order, then the Copy recipients, one per
\* address of cc in order.
C3_RecipientOrder ==
    ReachedSave =>
        LET tos == Addresses(to)
            ccs == CcAddresses(cc)
            rs == message.recipients
        IN  /\ Len(rs) = Len(tos) + Len(ccs)
            /\ \A i \in 1..Len(tos) :
                   rs[i].recipient_type = "TO" /\ rs[i].email_address = tos[i]
            /\ \A i \in 1..Len(ccs) :
                   /\ rs[Len(tos) + i].recipient_type = "CC"
                   /\ rs[Len(tos) + i].email_address = ccs[i]

\* one string to, a two-element cc list: 3 recipients, 1 Primary then 2 Copy
C3_Witness ==
    /\ pc = "done"
    /\ to.type = "str" /\ cc.type = "list" /\ Len(cc.items) = 2
    /\ Len(message.recipients) = 3
    /\ message.recipients[1].recipient_type = "TO"
    /\ message.recipients[3].recipient_type = "CC"

\* C4 as stated: with a cc that is neither a string nor a list the invocation
\* raises a type error and no recipient has been constructed, whatever to is.
C4_NoRecipientAtAll ==
    (cc.type \notin {"str", "list", "NoneType"} /\ pc = "raised") =>
        /\ err = "TypeError"
        /\ recipient_to = <<>> /\ recipient_cc = <<>>

\* C4 amended: with a cc that is neither a string nor a list, no Copy recipient
\* is ever constructed, the message is never touched and save is never called;
\* the invocation ends with the error of to when to is rejected, and otherwise
\* with a type error raised after one Primary recipient per address of to has
\* been constructed.
C4_NoCopyRecipient ==
    cc.type \notin {"str", "list", "NoneType"} =>
        /\ pc \in {"to", "cc", "raised"}
        /\ recipient_cc = <<>>
        /\ message = NewMessage
        /\ saves = 0
        /\ (pc = "raised" /\ AllValid(to)) =>
               /\ err = "TypeError"
               /\ Len(recipient_to) = Len(Addresses(to))
               /\ \A i \in 1..Len(recipient_to) :
                      /\ recipient_to[i].recipient_type = "TO"
                      /\ recipient_to[i].email_address = Addresses(to)[i]
        /\ (pc = "raised" /\ ~AllValid(to)) =>
               err = (IF to.type \in {"str", "list"} THEN "AssertionError" ELSE "TypeError")

\* the type error of cc, raised with two Primary recipients already built
C4_Witness ==
    /\ cc = PyInt /\ pc = "raised" /\ err = "TypeError"
    /\ Len(recipient_to) = 2

\* C5: a single valid address as to and the empty string as cc: the copy step
\* is skipped without an error, and the message handed to save has exactly one
\* Primary recipient, no Copy recipient and an empty display_cc.
C5_NoCopies ==
    (to.type = "str" /\ validate_mail_address(Text(to)) /\ cc = Str(<<>>)) =>
        /\ recipient_cc = <<>>
        /\ pc = "raised" => err = "OSError"
        /\ ReachedSave =>
               /\ Len(message.recipients) = 1
               /\ message.recipients[1].recipient_type = "TO"
               /\ message.recipients[1].email_address = Text(to)
               /\ message.display_cc = Str(<<>>)

C5_Witness ==
    /\ pc = "done" /\ to = Str(Alice) /\ cc = Str(<<>>)
    /\ Len(files[filename].message.recipients) = 1

\* the shape local-part@domain.tld over the whole string
HasShape(s) ==
    \E i \in 1..Len(s) : \E j \in 1..Len(s) :
        /\ s[i] = 64 /\ s[j] = 46
        /\ 1 < i /\ i + 1 < j /\ j + 2 <= Len(s)
        /\ \A k \in 1..(i - 1) : InLocalClass(s[k])
        /\ \A k \in (i + 1)..(j - 1) : InDomainClass(s[k])
        /\ \A k \in (j + 1)..Len(s) : IsAlpha(s[k])

\* C6: validate_mail_address accepts a string if and only if the whole string
\* has the shape local-part@domain.tld, and rejects it with a validation error
\* otherwise.
C6_AcceptsExactlyTheShape ==
    /\ pc = "accepted" => HasShape(Text(to))
    /\ pc = "raised" => ~HasShape(Text(to)) /\ err = "AssertionError"

\* what C7 as stated asks of one character
HtmlOfPrintable(c) ==
    IF c = 10 THEN BR
    ELSE IF c < 32 \/ c > 126 THEN <<38, 35>> \o Decimal(c) \o <<59>>
    ELSE <<c>>

\* what the encoder does to one character
HtmlOfAscii(c) ==
    IF c = 10 THEN BR
    ELSE IF c > 127 THEN <<38, 35>> \o Decimal(c) \o <<59>>
    ELSE <<c>>

\* C7 as stated: every character outside the printable ASCII range becomes its
\* decimal character reference, every line feed <br>, the rest is unchanged.
C7_OutsidePrintable ==
    pc = "fields" =>
        html_body = Concat([i \in 1..Len(body) |-> HtmlOfPrintable(body[i])])

\* C7 amended: every character above code point 127 becomes its decimal
\* character reference, every line feed <br>, and every other character, the
\* ASCII control characters included, is unchanged in place; on ASCII text
\* with no line feed the output equals the input.
C7_NonAscii ==
    pc = "fields" =>
        /\ html_body = Concat([i \in 1..Len(body) |-> HtmlOfAscii(body[i])])
        /\ (\A i \in 1..Len(body) : body[i] < 128 /\ body[i] # 10) => html_body = body

\* a tab, an e-acute and a line feed in one text
C7_Witness ==
    /\ pc = "fields"
    /\ Len(body) = 3
    /\ \A c \in {9, 10, 233} : \E i \in 1..3 : body[i] = c
    /\ Len(html_body) = 11

\* s up to its first @, all of s when it has none
BeforeFirstAt(s) ==
    IF \E i \in 1..Len(s) : s[i] = 64
    THEN SubSeq(s, 1, (CHOOSE i \in 1..Len(s) :
                           s[i] = 64 /\ \A j \in 1..(i - 1) : s[j] # 64) - 1)
    ELSE s

\* C8: the filename is <timestamp>_<recipient-tag>_<subject-tag>.msg; the
\* recipient tag is the first element (or the string) up to its first @, with
\* +others exactly for a list of more than one element; the subject tag is the
\* first 30 characters of the subject with every space turned into an
\* underscore.
C8_Filename ==
    pc = "save" =>
        LET tag == IF to.type = "list"
                   THEN BeforeFirstAt(to.items[1])
                            \o (IF Len(to.items) > 1 THEN Others ELSE <<>>)
                   ELSE BeforeFirstAt(Text(to))
            n == Min(Len(subject), 30)
            stag == [i \in 1..n |-> IF subject[i] = 32 THEN 95 ELSE subject[i]]
        IN  /\ filename = timestamp \o <<95>> \o tag \o <<95>> \o stag \o MsgExt
            /\ Len(timestamp) = 15
            /\ Len(stag) <= 30
            /\ \A i \in 1..Len(stag) : stag[i] # 32

\* a two-element list and a subject of more than 30 characters with spaces
C8_Witness ==
    /\ pc = "save"
    /\ to.type = "list" /\ Len(to.items) = 2
    /\ Len(subject) > 30
    /\ \E i \in 1..30 : subject[i] = 32
    /\ Len(filename) = 15 + 1 + Len(BeforeFirstAt(to.items[1])) + 7 + 1 + 30 + 4

C10_EmptyToFailsLate ==
    (to = List(<<>>) /\ (cc = Str(<<>>) \/ AllValid(cc))) =>
        /\ recipient_to = <<>>
        /\ pc \notin {"save", "done"}
        /\ saves = 0
        /\ pc = "raised" =>
               /\ err = "IndexError"
               /\ Populated
               /\ message.recipients = recipient_cc
               /\ Len(recipient_cc) = Len(CcAddresses(cc))
               /\ \A i \in 1..Len(recipient_cc) : recipient_cc[i].recipient_type = "CC"
               /\ filename = <<>>

C10_Witness ==
    /\ to = List(<<>>) /\ pc = "raised" /\ err = "IndexError"
    /\ Len(message.recipients) = 2
    /\ message.subject = Str(subject)
    /\ message.store_support_masks = <<"CREATE">>

====
